---- MODULE Spec2Model ----
(***************************************************************************)
(* Model of price-word.py: the polling loop that compares the Wallex       *)
(* last-trade price of every USDT market with the CoinCatch ticker price   *)
(* and sends a Telegram message when the deviation reaches the threshold.  *)
(*                                                                         *)
(* Strings that the code inspects character by character (ticker symbols)  *)
(* are sequences of one-character strings.  Prices are Python floats; the  *)
(* model draws them from integers for which every double operation of the  *)
(* code is exact (the reference prices are powers of two), so integer      *)
(* arithmetic computes exactly what the code computes.                     *)
(***************************************************************************)
EXTENDS Integers, Sequences, FiniteSets, TLC

VARIABLES
    cfgFile,            \* state of config.json on disk: "missing", "unparsable", "ok"
    fileConfig,         \* what json.load returns when the file is "ok"
    config,             \* main()'s local `config`; NoConfig before load_config returned
    pc,                 \* position of the single thread of control
    exc,                \* the exception that ended the process, "" while it runs
    coincatch_prices,   \* analyze_prices' local: function symbol -> price
    wallex_markets,     \* analyze_prices' local: listing entries in dict order
    idx,                \* position of the for loop in wallex_markets (1-based)
    wallex_price,       \* loop local: None or a float
    percentage_diff,    \* loop local: None until line 119 has run for this symbol
    signal,             \* None, or [action, profit_potential] of lines 138-143
    detailCalls,        \* calls of get_wallex_last_trade_price in this cycle
    detailRequests,     \* HTTP requests to the trades endpoint in this cycle
    sendCalls,          \* calls of send_telegram_message in this cycle
    sendAttempts,       \* calls of bot.send_message in this cycle
    sendFailures,       \* of which raised (and were logged)
    cyclesDone,         \* calls of analyze_prices that returned, counted up to MaxCycles
    tickerResponse,     \* PricesSpec only: the ticker response a call is applied to
    listingResponse,    \* MarketsSpec only: the listing response a call is applied to
    escText,            \* EscapeSpec only: the argument of escape_markdown
    escResult           \* EscapeSpec only: the value escape_markdown returned

vars == <<cfgFile, fileConfig, config, pc, exc, coincatch_prices, wallex_markets,
          idx, wallex_price, percentage_diff, signal,
          detailCalls, detailRequests, sendCalls, sendAttempts, sendFailures,
          cyclesDone, tickerResponse, listingResponse, escText, escResult>>

----------------------------------------------------------------------------
(* Bounds of the model. *)

MaxTickers == 2     \* longest 'data' list of a ticker response
MaxMarkets == 2     \* most entries of a listing response
MaxCycles == 2      \* cyclesDone stops counting here

----------------------------------------------------------------------------
(* Values. *)

None == [kind |-> "None"]
Float(v) == [kind |-> "float", val |-> v]
Str == [kind |-> "str"]                 \* a string that float() rejects

\* Python truthiness of a value that is None or a float (lines 74, 118).
Truthy(x) == x.kind = "float" /\ x.val # 0

Abs(n) == IF n < 0 THEN -n ELSE n

\* Symbols as the listing spells them.
BU == <<"B", "U">>
EU == <<"E", "U">>
XU == <<"X", "U">>
ListingSymbols == {BU, EU, XU}

\* Symbols as the ticker response may spell them ('' when the key is absent).
RawSymbols == {<< >>, <<"-">>, <<"B", "-", "U">>, <<"B", "U">>, <<"E", "-", "U">>}

\* 'close' of a ticker entry: absent (get returns None), non-numeric, or a number.
CloseValues == {None, Str, Float(0), Float(-4), Float(4)}

\* First element of latestTrades, when the request succeeds with trades.
TradePrices == {-4, 0, 2, 3, 4, 6}

QuoteAssets == {"USDT", "TMN"}

Placeholder == "YOUR_API_KEY_HERE"
NoKey == "<absent>"         \* .get('api_key') returned None
ApiKeys == {NoKey, "", Placeholder, "k3y"}

NoConfig == [loaded |-> FALSE]

Configs == [loaded : {TRUE},
            api_key : ApiKeys,
            price_difference_threshold : {0, 50},
            bot_token : {"", "tok"},
            has_message_thread_id : BOOLEAN]

\* All sequences over S of length at most n.
SeqUpTo(S, n) == UNION {[1..k -> S] : k \in 0..n}

TickerEntries == [symbol : RawSymbols, close : CloseValues]
TickerResponses == SeqUpTo(TickerEntries, MaxTickers)

MarketEntries == [symbol : ListingSymbols, quoteAsset : QuoteAssets, baseAsset : {"base"}]
\* A JSON object has one entry per key.
ListingResponses ==
    {l \in SeqUpTo(MarketEntries, MaxMarkets) :
        \A i, j \in 1..Len(l) : i # j => l[i].symbol # l[j].symbol}

EmptyTable == [k \in {} |-> 0]

NoResponse == [ok |-> FALSE, data |-> << >>]
NoListing == [ok |-> FALSE, symbols |-> << >>]

----------------------------------------------------------------------------
(* get_coincatch_prices, lines 65-77. *)

\* str.replace('-', '') of line 72.
RemoveDash(s) == SelectSeq(s, LAMBDA ch : ch # "-")

\* float(x) raises TypeError on None and ValueError on a non-numeric string.
FloatRaises(x) == x.kind # "float"

\* The dict comprehension of line 72: a later entry replaces an earlier one
\* with the same key.
RECURSIVE TickerDict(_)
TickerDict(data) ==
    IF data = << >> THEN EmptyTable
    ELSE LET init == TickerDict(SubSeq(data, 1, Len(data) - 1))
             last == data[Len(data)]
             k    == RemoveDash(last.symbol)
         IN  [s \in DOMAIN init \cup {k} |-> IF s = k THEN last.close.val ELSE init[s]]

\* Line 74: keep the entries whose key and value are truthy.
FilterTruthy(prices) ==
    LET keep == {k \in DOMAIN prices : k # << >> /\ prices[k] # 0}
    IN  [k \in keep |-> prices[k]]

\* The whole function on a response that arrived (ok = TRUE) with body 'data';
\* any exception, of the request or of the comprehension, gives {}.
get_coincatch_prices(ok, data) ==
    IF ~ok THEN EmptyTable
    ELSE IF \E i \in 1..Len(data) : FloatRaises(data[i].close) THEN EmptyTable
    ELSE FilterTruthy(TickerDict(data))

----------------------------------------------------------------------------
(* get_wallex_usdt_markets, lines 29-39. *)

\* Variant of get_wallex_usdt_markets: the quote asset is not compared.
get_wallex_usdt_markets_NoFilter(ok, symbols) ==
    IF ~ok THEN << >> ELSE symbols

get_wallex_usdt_markets(ok, symbols) ==
    IF ~ok THEN << >>
    ELSE SelectSeq(symbols, LAMBDA d : d.quoteAsset = "USDT")

----------------------------------------------------------------------------
(* Startup. *)

Init ==
    /\ \/ cfgFile \in {"missing", "unparsable"} /\ fileConfig = NoConfig
       \/ cfgFile = "ok" /\ fileConfig \in Configs
    /\ config = NoConfig
    /\ pc = "load"
    /\ exc = ""
    /\ coincatch_prices = EmptyTable
    /\ wallex_markets = << >>
    /\ idx = 0
    /\ wallex_price = None
    /\ percentage_diff = None
    /\ signal = None
    /\ detailCalls = 0
    /\ detailRequests = 0
    /\ sendCalls = 0
    /\ sendAttempts = 0
    /\ sendFailures = 0
    /\ cyclesDone = 0
    /\ tickerResponse = NoResponse
    /\ listingResponse = NoListing
    /\ escText = << >>
    /\ escResult = << >>

cycleVars == <<coincatch_prices, wallex_markets, idx, wallex_price, percentage_diff,
               signal, detailCalls, detailRequests, sendCalls, sendAttempts, sendFailures>>

\* Variant of LoadResult: the FileNotFoundError handler logs and returns.
LoadResult_NoExit(file) ==
    IF file = "unparsable" THEN [pc |-> "crashed", exc |-> "JSONDecodeError"]
    ELSE [pc |-> "prices", exc |-> ""]

\* load_config, lines 19-26: FileNotFoundError is answered by exit(), a
\* JSONDecodeError is not caught, otherwise the parsed document is returned.
LoadResult(file) ==
    IF file = "missing" THEN [pc |-> "exited", exc |-> "SystemExit"]
    ELSE IF file = "unparsable" THEN [pc |-> "crashed", exc |-> "JSONDecodeError"]
    ELSE [pc |-> "prices", exc |-> ""]

\* Line 171: main calls load_config before the loop.
LoadConfig ==
    /\ pc = "load"
    /\ pc' = LoadResult(cfgFile).pc
    /\ exc' = LoadResult(cfgFile).exc
    /\ config' = IF LoadResult(cfgFile).pc = "prices" THEN fileConfig ELSE config
    /\ UNCHANGED <<cyclesDone, escText, escResult, listingResponse, tickerResponse, cfgFile, fileConfig, cycleVars>>

\* Line 99: the ticker request and its parsing.
GetCoincatchPrices ==
    /\ pc = "prices"
    /\ \E ok \in BOOLEAN, data \in TickerResponses :
          coincatch_prices' = get_coincatch_prices(ok, data)
    /\ pc' = "markets"
    /\ UNCHANGED <<cyclesDone, escText, escResult, listingResponse, tickerResponse, cfgFile, fileConfig, config, exc, wallex_markets, idx, wallex_price,
                   percentage_diff, signal, detailCalls, detailRequests, sendCalls,
                   sendAttempts, sendFailures>>

\* Line 100: the listing request and its filtering.
GetWallexUsdtMarkets ==
    /\ pc = "markets"
    /\ \E ok \in BOOLEAN, symbols \in ListingResponses :
          wallex_markets' = get_wallex_usdt_markets(ok, symbols)
    /\ pc' = "guard"
    /\ UNCHANGED <<cyclesDone, escText, escResult, listingResponse, tickerResponse, cfgFile, fileConfig, config, exc, coincatch_prices, idx, wallex_price,
                   percentage_diff, signal, detailCalls, detailRequests, sendCalls,
                   sendAttempts, sendFailures>>

\* Variant of DataMissing: 'and' in place of 'or'.
DataMissing_Both(prices, markets) == prices = EmptyTable /\ markets = << >>

\* Line 102: either source came back empty.
DataMissing(prices, markets) == prices = EmptyTable \/ markets = << >>

\* Variant of ApiKeyMissing: the comparison with the placeholder is left out.
ApiKeyMissing_NoPlaceholder(cfg) == cfg.api_key \in {NoKey, ""}

\* Line 110: the credential check made once per cycle.
ApiKeyMissing(cfg) == cfg.api_key \in {NoKey, ""} \/ cfg.api_key = Placeholder

\* Lines 102-114: the two early returns, then the loop is entered.
CycleGuards ==
    /\ pc = "guard"
    /\ IF DataMissing(coincatch_prices, wallex_markets) \/ ApiKeyMissing(config)
         THEN pc' = "wait" /\ idx' = idx
         ELSE pc' = "detail" /\ idx' = 1
    /\ UNCHANGED <<cyclesDone, escText, escResult, listingResponse, tickerResponse, cfgFile, fileConfig, config, exc, coincatch_prices, wallex_markets,
                   wallex_price, percentage_diff, signal, detailCalls, detailRequests,
                   sendCalls, sendAttempts, sendFailures>>

----------------------------------------------------------------------------
(* get_wallex_last_trade_price, lines 41-63. *)

MaxTrades == 2      \* longest latestTrades list of a trades response

\* A trades response: the request or its parsing raised, or latestTrades arrived.
DetailResponses ==
    {[kind |-> "error"]} \cup
    [kind : {"trades"}, latestTrades : SeqUpTo(TradePrices, MaxTrades)]

\* Line 45: the credential check made inside the fetch.
NoUsableKey(cfg) == cfg.api_key \in {NoKey, ""} \/ cfg.api_key = Placeholder

\* No request is made without a usable key (line 48).
RequestsTrades(cfg) == ~NoUsableKey(cfg)

\* The value returned, given the response the request would get.
get_wallex_last_trade_price(cfg, resp) ==
    IF NoUsableKey(cfg) THEN None
    ELSE IF resp.kind = "error" THEN None
    ELSE IF resp.latestTrades # << >> THEN Float(resp.latestTrades[1])
    ELSE None

\* Line 115.
GetWallexLastTradePrice ==
    /\ pc = "detail"
    /\ \E resp \in DetailResponses :
          wallex_price' = get_wallex_last_trade_price(config, resp)
    /\ detailCalls' = detailCalls + 1
    /\ detailRequests' = detailRequests + (IF RequestsTrades(config) THEN 1 ELSE 0)
    /\ pc' = "evaluate"
    /\ UNCHANGED <<cyclesDone, escText, escResult, listingResponse, tickerResponse, cfgFile, fileConfig, config, exc, coincatch_prices, wallex_markets, idx,
                   percentage_diff, signal, sendCalls, sendAttempts, sendFailures>>

----------------------------------------------------------------------------
(* The comparison, lines 116-143. *)

\* dict.get(symbol) of line 116.
DictGet(prices, symbol) ==
    IF symbol \in DOMAIN prices THEN Float(prices[symbol]) ELSE None

\* Variant of BothAvailable: 'or' in place of 'and'.
BothAvailable_Or(w, c) == Truthy(w) \/ Truthy(c)

\* Line 118.
BothAvailable(w, c) == Truthy(w) /\ Truthy(c)

\* Variant of PercentageDiff: the two prices exchanged in the numerator.
PercentageDiff_Swapped(w, c) == ((c - w) * 100) \div c

\* Line 119; the quotient is exact for the prices of the model.
PercentageDiff(w, c) == ((w - c) * 100) \div c

\* Line 119 on Python values: arithmetic on None raises TypeError, a zero
\* divisor raises ZeroDivisionError.
Line119Raises(w, c) ==
    IF w.kind # "float" \/ c.kind # "float" THEN "TypeError"
    ELSE IF c.val = 0 THEN "ZeroDivisionError"
    ELSE ""

\* Variant of MeetsThreshold: strict comparison.
MeetsThreshold_Strict(diff, threshold) == Abs(diff) > threshold

\* Line 128.
MeetsThreshold(diff, threshold) == Abs(diff) >= threshold

\* Lines 138-143.
Classify(diff) ==
    IF diff < 0
      THEN [kind |-> "signal", action |-> "BUY", profit_potential |-> Abs(diff)]
      ELSE [kind |-> "signal", action |-> "SELL", profit_potential |-> diff]

CurrentSymbol == wallex_markets[idx].symbol

\* Variant of Evaluate: a symbol without both prices is left with 'continue',
\* so the sleep of line 167 is not reached for it.
Evaluate_SkipWithoutPacing ==
    /\ pc = "evaluate"
    /\ LET coincatch_price == DictGet(coincatch_prices, CurrentSymbol)
       IN  IF ~BothAvailable(wallex_price, coincatch_price)
             THEN /\ pc' = IF idx < Len(wallex_markets) THEN "detail" ELSE "wait"
                  /\ idx' = idx + 1
                  /\ wallex_price' = None /\ exc' = exc
                  /\ UNCHANGED <<percentage_diff, signal>>
           ELSE LET diff == PercentageDiff(wallex_price.val, coincatch_price.val)
                IN  /\ percentage_diff' = Float(diff)
                    /\ exc' = exc
                    /\ UNCHANGED <<idx, wallex_price>>
                    /\ IF MeetsThreshold(diff, config.price_difference_threshold)
                         THEN signal' = Classify(diff) /\ pc' = "send"
                         ELSE signal' = signal /\ pc' = "pace"
    /\ UNCHANGED <<cyclesDone, escText, escResult, listingResponse, tickerResponse, cfgFile,
                   fileConfig, config, coincatch_prices, wallex_markets, detailCalls,
                   detailRequests, sendCalls, sendAttempts, sendFailures>>

\* Lines 116-162 for the current symbol, up to the call of line 163.
Evaluate ==
    /\ pc = "evaluate"
    /\ LET coincatch_price == DictGet(coincatch_prices, CurrentSymbol)
       IN  IF ~BothAvailable(wallex_price, coincatch_price)
             THEN /\ pc' = "pace" /\ exc' = exc
                  /\ UNCHANGED <<percentage_diff, signal>>
           ELSE IF Line119Raises(wallex_price, coincatch_price) # ""
             THEN /\ pc' = "crashed"
                  /\ exc' = Line119Raises(wallex_price, coincatch_price)
                  /\ UNCHANGED <<percentage_diff, signal>>
           ELSE LET diff == PercentageDiff(wallex_price.val, coincatch_price.val)
                IN  /\ percentage_diff' = Float(diff)
                    /\ exc' = exc
                    /\ IF MeetsThreshold(diff, config.price_difference_threshold)
                         THEN signal' = Classify(diff) /\ pc' = "send"
                         ELSE signal' = signal /\ pc' = "pace"
    /\ UNCHANGED <<cyclesDone, escText, escResult, listingResponse, tickerResponse, cfgFile, fileConfig, config, coincatch_prices, wallex_markets, idx,
                   wallex_price, detailCalls, detailRequests, sendCalls, sendAttempts,
                   sendFailures>>

----------------------------------------------------------------------------
(* send_telegram_message, lines 79-92, awaited at line 163. *)

\* Line 83 subscripts config['telegram'] outside the try block.
ThreadIdLookupRaises(cfg) == ~cfg.has_message_thread_id

\* Variant of SendAttemptsMade: a failed send is tried once more.
SendAttemptsMade_Retry(ok) == IF ok THEN 1 ELSE 2

\* Lines 87-90: bot.send_message is called once, whatever its outcome.
SendAttemptsMade(ok) == 1

\* Variant of SendRaisesToCaller: the call of bot.send_message is not guarded.
SendRaisesToCaller_NoExcept(ok) == ~ok

\* Lines 85-92: an exception of bot.send_message is caught and logged.
SendRaisesToCaller(ok) == FALSE

SendTelegramMessage ==
    /\ pc = "send"
    /\ sendCalls' = sendCalls + 1
    /\ IF ThreadIdLookupRaises(config)
         THEN /\ pc' = "crashed" /\ exc' = "KeyError"
              /\ UNCHANGED <<sendAttempts, sendFailures>>
       ELSE IF config.bot_token = ""
         THEN /\ pc' = "pace" /\ exc' = exc
              /\ UNCHANGED <<sendAttempts, sendFailures>>
       ELSE \E ok \in BOOLEAN :
              /\ sendAttempts' = sendAttempts + SendAttemptsMade(ok)
              /\ sendFailures' = sendFailures + (IF ok THEN 0 ELSE 1)
              /\ IF SendRaisesToCaller(ok)
                   THEN pc' = "crashed" /\ exc' = "TelegramError"
                   ELSE pc' = "pace" /\ exc' = exc
    /\ UNCHANGED <<cyclesDone, escText, escResult, listingResponse, tickerResponse, cfgFile, fileConfig, config, coincatch_prices, wallex_markets, idx,
                   wallex_price, percentage_diff, signal, detailCalls, detailRequests>>

----------------------------------------------------------------------------
(* Pacing and the outer loop. *)

\* Line 167, then the next iteration of line 114 or the return to main.  The
\* loop locals are rebound by the next iteration before they are read, so the
\* model clears them here.
Pace ==
    /\ pc = "pace"
    /\ idx' = idx + 1
    /\ pc' = IF idx < Len(wallex_markets) THEN "detail" ELSE "wait"
    /\ wallex_price' = None
    /\ percentage_diff' = None
    /\ signal' = None
    /\ UNCHANGED <<cyclesDone, escText, escResult, listingResponse, tickerResponse, cfgFile, fileConfig, config, exc, coincatch_prices, wallex_markets,
                   detailCalls, detailRequests, sendCalls, sendAttempts, sendFailures>>

\* Variant of Wait: the tables of the cycle that returned are kept, and a
\* cycle that finds them filled does not fetch again.
Wait_Cached ==
    /\ pc = "wait"
    /\ pc' = IF DataMissing(coincatch_prices, wallex_markets) THEN "prices" ELSE "guard"
    /\ idx' = 0
    /\ wallex_price' = None
    /\ percentage_diff' = None
    /\ signal' = None
    /\ detailCalls' = 0
    /\ detailRequests' = 0
    /\ sendCalls' = 0
    /\ sendAttempts' = 0
    /\ sendFailures' = 0
    /\ cyclesDone' = IF cyclesDone < MaxCycles THEN cyclesDone + 1 ELSE cyclesDone
    /\ UNCHANGED <<escText, escResult, listingResponse, tickerResponse, cfgFile, fileConfig,
                   config, exc, coincatch_prices, wallex_markets>>

\* Lines 174-176 and the next iteration of line 172: the locals of the cycle
\* that returned are gone, a new call of analyze_prices starts.
Wait ==
    /\ pc = "wait"
    /\ pc' = "prices"
    /\ coincatch_prices' = EmptyTable
    /\ wallex_markets' = << >>
    /\ idx' = 0
    /\ wallex_price' = None
    /\ percentage_diff' = None
    /\ signal' = None
    /\ detailCalls' = 0
    /\ detailRequests' = 0
    /\ sendCalls' = 0
    /\ sendAttempts' = 0
    /\ sendFailures' = 0
    /\ cyclesDone' = IF cyclesDone < MaxCycles THEN cyclesDone + 1 ELSE cyclesDone
    /\ UNCHANGED <<escText, escResult, listingResponse, tickerResponse, cfgFile, fileConfig,
                   config, exc>>

Next ==
    \/ LoadConfig
    \/ GetCoincatchPrices
    \/ GetWallexUsdtMarkets
    \/ CycleGuards
    \/ GetWallexLastTradePrice
    \/ Evaluate
    \/ SendTelegramMessage
    \/ Pace
    \/ Wait

Spec == Init /\ [][Next]_vars

\* Every outbound call and every sleep returns: the one enabled step is taken.
FairSpec == Spec /\ WF_vars(Next)

----------------------------------------------------------------------------
(* get_coincatch_prices applied to one ticker response. *)

PricesInit ==
    /\ tickerResponse \in [ok : BOOLEAN, data : TickerResponses]
    /\ listingResponse = NoListing
    /\ escText = << >>
    /\ escResult = << >>
    /\ cfgFile = "ok"
    /\ fileConfig \in {c \in Configs : c.api_key = "k3y" /\ c.bot_token = "tok"
                                       /\ c.has_message_thread_id
                                       /\ c.price_difference_threshold = 50}
    /\ config = fileConfig
    /\ pc = "prices"
    /\ exc = ""
    /\ coincatch_prices = EmptyTable
    /\ wallex_markets = << >>
    /\ idx = 0
    /\ wallex_price = None
    /\ percentage_diff = None
    /\ signal = None
    /\ detailCalls = 0
    /\ detailRequests = 0
    /\ sendCalls = 0
    /\ sendAttempts = 0
    /\ sendFailures = 0
    /\ cyclesDone = 0

\* Line 99 with the response fixed by the initial state.
ParseTickers ==
    /\ pc = "prices"
    /\ coincatch_prices' = get_coincatch_prices(tickerResponse.ok, tickerResponse.data)
    /\ pc' = "parsed"
    /\ UNCHANGED <<cyclesDone, escText, escResult, listingResponse, tickerResponse, cfgFile, fileConfig, config, exc, wallex_markets, idx,
                   wallex_price, percentage_diff, signal, detailCalls, detailRequests,
                   sendCalls, sendAttempts, sendFailures>>

PricesNext == ParseTickers

PricesSpec == PricesInit /\ [][PricesNext]_vars

----------------------------------------------------------------------------
(* get_wallex_usdt_markets applied to one listing response. *)

\* A loaded configuration and no cycle data: the state in which a helper is
\* called on its own.
HelperCallState ==
    /\ cfgFile = "ok"
    /\ fileConfig = [loaded |-> TRUE, api_key |-> "k3y", price_difference_threshold |-> 50,
                     bot_token |-> "tok", has_message_thread_id |-> TRUE]
    /\ config = fileConfig
    /\ exc = ""
    /\ coincatch_prices = EmptyTable
    /\ wallex_markets = << >>
    /\ idx = 0
    /\ wallex_price = None
    /\ percentage_diff = None
    /\ signal = None
    /\ detailCalls = 0
    /\ detailRequests = 0
    /\ sendCalls = 0
    /\ sendAttempts = 0
    /\ sendFailures = 0
    /\ cyclesDone = 0

MarketsInit ==
    /\ listingResponse \in [ok : BOOLEAN, symbols : ListingResponses]
    /\ tickerResponse = NoResponse
    /\ escText = << >>
    /\ escResult = << >>
    /\ pc = "markets"
    /\ HelperCallState

\* Line 100 with the response fixed by the initial state.
FilterMarkets ==
    /\ pc = "markets"
    /\ wallex_markets' = get_wallex_usdt_markets(listingResponse.ok, listingResponse.symbols)
    /\ pc' = "filtered"
    /\ UNCHANGED <<cyclesDone, escText, escResult, listingResponse, tickerResponse, cfgFile, fileConfig,
                   config, exc, coincatch_prices, idx, wallex_price, percentage_diff, signal,
                   detailCalls, detailRequests, sendCalls, sendAttempts, sendFailures>>

MarketsNext == FilterMarkets

MarketsSpec == MarketsInit /\ [][MarketsNext]_vars

----------------------------------------------------------------------------
(* escape_markdown, lines 145-148. *)

MaxText == 3        \* longest argument of escape_markdown

\* The grave accent (U+0060), which a TLA+ string cannot hold, by name.
Grave == "grave"

\* Line 147.
EscapeChars == {"_", "*", "[", "]", "(", ")", "~", Grave, ">", "#", "+", "-", "=", "|",
                "{", "}", ".", "!"}

\* Characters of the arguments: reserved ones, a letter, a digit and the backslash.
TextChars == {"_", ".", "-", "a", "1", "\\"}

\* Variant of EscapeChar: the marker is written after the character.
EscapeChar_MarkerAfter(ch) == IF ch \in EscapeChars THEN <<ch, "\\">> ELSE <<ch>>

\* Line 148, one character: f'\\{char}' if char in escape_chars else char.
EscapeChar(ch) == IF ch \in EscapeChars THEN <<"\\", ch>> ELSE <<ch>>

\* Line 148: ''.join over the characters of the text.
RECURSIVE escape_markdown(_)
escape_markdown(text) ==
    IF text = << >> THEN << >>
    ELSE EscapeChar(Head(text)) \o escape_markdown(Tail(text))

EscapeInit ==
    /\ escText \in SeqUpTo(TextChars, MaxText)
    /\ escResult = << >>
    /\ tickerResponse = NoResponse
    /\ listingResponse = NoListing
    /\ pc = "escape"
    /\ HelperCallState

\* One call of escape_markdown (lines 150-153, 156).
ApplyEscape ==
    /\ pc = "escape"
    /\ escResult' = escape_markdown(escText)
    /\ pc' = "escaped"
    /\ UNCHANGED <<cyclesDone, escText, listingResponse, tickerResponse, cfgFile, fileConfig, config, exc,
                   cycleVars>>

EscapeNext == ApplyEscape

EscapeSpec == EscapeInit /\ [][EscapeNext]_vars
----------------------------------------------------------------------------
(* Properties. *)

Loaded == config.loaded
InLoop == pc \in {"detail", "evaluate", "send", "pace"}
PastGuards == InLoop \/ pc \in {"wait", "crashed"}
NoCycleWork ==
    /\ detailCalls = 0 /\ detailRequests = 0
    /\ sendCalls = 0 /\ sendAttempts = 0

\* The credential of the configuration is absent, empty or the placeholder.
KeyUnusable == Loaded /\ config.api_key \in {NoKey, "", Placeholder}

\* C1: with a missing, empty or placeholder API key no cycle ever calls the
\* detail fetch, issues a trades request or sends a notification, and the
\* loop over the symbols is never entered.
C1_NoDetailWithoutKey == KeyUnusable => NoCycleWork /\ ~InLoop

\* A cycle that had both sources' data was ended by the credential check.
C1_Witness ==
    /\ KeyUnusable /\ config.api_key = Placeholder
    /\ pc = "wait"
    /\ coincatch_prices # EmptyTable /\ wallex_markets # << >>

\* The cycle ran its loop (neither early return was taken).
RanLoop ==
    /\ Loaded /\ ~KeyUnusable
    /\ coincatch_prices # EmptyTable /\ wallex_markets # << >>

\* C2: after the configuration has loaded, the only exception that ever ends
\* the process is the KeyError of the configuration lookup, which is none of
\* the listed failures; a cycle that ran its loop and reached the wait has
\* processed every symbol of the listing; and every cycle that starts reaches
\* the inter-cycle wait unless that KeyError ends it.
C2_ListedFailuresContained ==
    /\ [](Loaded => exc \in {"", "KeyError"})
    /\ []((pc = "wait" /\ RanLoop) =>
            /\ idx = Len(wallex_markets) + 1
            /\ detailCalls = Len(wallex_markets))
    /\ ((pc = "prices") ~> (pc = "wait" \/ exc = "KeyError"))

\* The one send of the cycle failed, and the cycle still processed both
\* symbols of the listing and reached the wait.
C2_Witness ==
    /\ pc = "wait" /\ RanLoop
    /\ sendFailures = 1 /\ sendCalls = 1
    /\ Len(wallex_markets) = 2 /\ detailCalls = 2

\* C3 (as claimed): once the configuration has loaded the process never
\* reaches a terminal state.
C3_NeverTerminal == Loaded => pc \notin {"exited", "crashed"}

DataEmpty == coincatch_prices = EmptyTable \/ wallex_markets = << >>

\* C4: once a cycle has fetched both sources and one of them is empty, the
\* cycle is at the inter-cycle wait, having called no detail fetch and sent
\* nothing; the process has not terminated.
C4_EmptySourceSkipsCycle ==
    (Loaded /\ PastGuards /\ DataEmpty) => (pc = "wait" /\ exc = "" /\ idx = 0 /\ NoCycleWork)

\* The price table came back empty while the listing and the key were usable.
C4_Witness ==
    /\ pc = "wait" /\ Loaded /\ ~KeyUnusable
    /\ coincatch_prices = EmptyTable /\ wallex_markets # << >>

\* The current symbol has been evaluated with both prices available.
Evaluated ==
    /\ Loaded /\ pc \in {"send", "pace", "crashed"}
    /\ Truthy(wallex_price)
    /\ CurrentSymbol \in DOMAIN coincatch_prices

\* C5: for a symbol with both prices available a signal is emitted exactly
\* when |priceA - priceB| * 100 >= threshold * |priceB|, that is when
\* abs(diff%) >= threshold; equality emits.
C5_SignalIffThreshold ==
    Evaluated =>
        LET w == wallex_price.val
            c == coincatch_prices[CurrentSymbol]
        IN  (signal # None) <=>
                (Abs(w - c) * 100 >= config.price_difference_threshold * Abs(c))

\* abs(diff%) equals a non-zero threshold and the signal is about to be sent.
C5_Witness ==
    /\ Evaluated /\ pc = "send" /\ signal # None
    /\ config.price_difference_threshold = 50
    /\ Abs(percentage_diff.val) = 50

\* C6: with a positive reference price the deviation is
\* (priceA - priceB) / priceB * 100, an emitted signal is BUY exactly when
\* priceA < priceB and SELL otherwise, and its magnitude is abs(diff%).
C6_DiffAndAction ==
    (Evaluated /\ coincatch_prices[CurrentSymbol] > 0) =>
        LET w == wallex_price.val
            c == coincatch_prices[CurrentSymbol]
        IN  /\ percentage_diff # None
            /\ percentage_diff.val * c = (w - c) * 100
            /\ signal # None =>
                 /\ signal.action = (IF w < c THEN "BUY" ELSE "SELL")
                 /\ signal.profit_potential = Abs(percentage_diff.val)

\* Equal prices with threshold 0: a SELL signal of magnitude 0.
C6_Witness ==
    /\ Evaluated /\ pc = "send"
    /\ wallex_price.val = coincatch_prices[CurrentSymbol]
    /\ coincatch_prices[CurrentSymbol] > 0
    /\ signal # None /\ signal.action = "SELL"

IsBadEntry(e) == e.close.kind # "float"
\* An entry with a usable key and a positive price that no other entry overrides.
IsValidEntry(data, i) ==
    /\ data[i].close.kind = "float" /\ data[i].close.val > 0
    /\ RemoveDash(data[i].symbol) # << >>
    /\ \A j \in 1..Len(data) :
          j # i => RemoveDash(data[j].symbol) # RemoveDash(data[i].symbol)

\* C7 (as claimed): when the response has entries with a missing or
\* non-numeric price and valid entries, the returned table has the valid ones.
C7_PartialSuccess ==
    (pc = "parsed" /\ tickerResponse.ok
        /\ \E i \in 1..Len(tickerResponse.data) : IsBadEntry(tickerResponse.data[i])) =>
    \A i \in 1..Len(tickerResponse.data) :
        IsValidEntry(tickerResponse.data, i) =>
            /\ RemoveDash(tickerResponse.data[i].symbol) \in DOMAIN coincatch_prices
            /\ coincatch_prices[RemoveDash(tickerResponse.data[i].symbol)]
                 = tickerResponse.data[i].close.val

\* C8 (as claimed): every entry of the price table has a non-empty symbol and
\* a price strictly greater than zero.
C8_TablePositive ==
    \A k \in DOMAIN coincatch_prices : k # << >> /\ coincatch_prices[k] > 0

\* C9: with config.json missing or unparsable the process ends at startup:
\* no configuration is loaded, no cycle position is ever reached and nothing
\* is fetched or sent.
C9_NoCycleWithoutConfig ==
    cfgFile # "ok" =>
        /\ pc \in {"load", "exited", "crashed"}
        /\ ~Loaded
        /\ NoCycleWork
        /\ coincatch_prices = EmptyTable /\ wallex_markets = << >> /\ idx = 0

\* The process has ended on an unparsable file.
C9_Witness == cfgFile = "unparsable" /\ pc = "crashed" /\ exc = "JSONDecodeError"

\* The symbol under evaluation has no entry in the price table.
SymbolUnpriced == pc = "evaluate" /\ CurrentSymbol \notin DOMAIN coincatch_prices

\* C10: evaluating a listed symbol that has no entry in the price table
\* computes no deviation, raises no signal, sends nothing and raises no
\* exception; control goes to the pacing delay, and from there to the next
\* symbol of the listing when there is one.
C10_UnpricedSymbolSkipped ==
    [][/\ SymbolUnpriced =>
            /\ pc' = "pace" /\ exc' = ""
            /\ percentage_diff' = None /\ signal' = None
            /\ sendCalls' = sendCalls /\ sendAttempts' = sendAttempts
       /\ (pc = "pace" /\ idx < Len(wallex_markets)) =>
            /\ pc' = "detail" /\ idx' = idx + 1]_vars

\* The first symbol had a Wallex price but no table entry, and the cycle is at
\* the detail fetch of the second symbol.
C10_Witness ==
    /\ pc = "detail" /\ idx = 2
    /\ wallex_markets[1].symbol \notin DOMAIN coincatch_prices
    /\ detailRequests = 1 /\ sendCalls = 0
\* Drops every backslash that stands immediately before a reserved character.
RECURSIVE RemoveMarkers(_)
RemoveMarkers(s) ==
    IF s = << >> THEN << >>
    ELSE IF Len(s) >= 2 /\ s[1] = "\\" /\ s[2] \in EscapeChars
      THEN <<s[2]>> \o RemoveMarkers(SubSeq(s, 3, Len(s)))
      ELSE <<s[1]>> \o RemoveMarkers(Tail(s))

CountIn(s, S) == Cardinality({i \in 1..Len(s) : s[i] \in S})

\* C11: the result of escape_markdown has one inserted backslash per reserved
\* character of the text and nothing else added; every reserved character of
\* the result stands immediately behind a backslash; the characters of the
\* text that are not reserved (a backslash of the text included) are there
\* unchanged and in order; removing the markers gives back the text.
C11_EscapeMarkdown ==
    pc = "escaped" =>
        /\ Len(escResult) = Len(escText) + CountIn(escText, EscapeChars)
        /\ CountIn(escResult, {"\\"}) = CountIn(escText, {"\\"}) + CountIn(escText, EscapeChars)
        /\ \A j \in 1..Len(escResult) :
              escResult[j] \in EscapeChars => j > 1 /\ escResult[j - 1] = "\\"
        /\ SelectSeq(escResult, LAMBDA ch : ch # "\\") = SelectSeq(escText, LAMBDA ch : ch # "\\")
        /\ RemoveMarkers(escResult) = escText

\* A text with two reserved characters and a letter has been escaped.
C11_Witness ==
    /\ pc = "escaped"
    /\ escText = <<"a", "_", ".">>
    /\ escResult = <<"a", "\\", "_", "\\", ".">>


Range(f) == {f[i] : i \in DOMAIN f}

\* Position in the response of the entry with the symbol of result entry i.
PositionOf(symbols, e) == CHOOSE i \in 1..Len(symbols) : symbols[i] = e

\* C12: the universe returned for a listing response holds exactly the
\* entries of the response whose quote asset is USDT, each once and in the
\* order of the response; a failed request or parse gives the empty universe.
C12_OnlyUsdtMarkets ==
    pc = "filtered" =>
        IF ~listingResponse.ok THEN wallex_markets = << >>
        ELSE LET symbols == listingResponse.symbols
             IN  /\ Range(wallex_markets) = {e \in Range(symbols) : e.quoteAsset = "USDT"}
                 /\ \A i, j \in 1..Len(wallex_markets) :
                       i < j => PositionOf(symbols, wallex_markets[i])
                                  < PositionOf(symbols, wallex_markets[j])

\* Of two listed markets the one quoted in another asset has been dropped.
C12_Witness ==
    /\ pc = "filtered" /\ listingResponse.ok
    /\ Len(listingResponse.symbols) = 2
    /\ listingResponse.symbols[1].quoteAsset = "TMN"
    /\ wallex_markets = <<listingResponse.symbols[2]>>

\* C13 (as claimed): a detail request has been made only for a symbol that
\* is in the price table as well as in the listing.
C13_DetailOnlyForCommon ==
    (pc = "evaluate" /\ detailRequests > 0) => CurrentSymbol \in DOMAIN coincatch_prices

\* C14 (as claimed): a symbol whose Wallex price or reference price is
\* absent, zero or negative is skipped without a deviation or a signal, and
\* no division by zero ends the process.
C14_NonPositiveSkipped ==
    /\ exc # "ZeroDivisionError"
    /\ (Loaded /\ pc \in {"send", "pace", "crashed"}) =>
          LET c == DictGet(coincatch_prices, CurrentSymbol)
              unavailable(x) == x.kind = "None" \/ x.val <= 0
          IN  (unavailable(wallex_price) \/ unavailable(c)) =>
                  (pc = "pace" /\ percentage_diff = None /\ signal = None)

\* C15: within a cycle the detail fetch of a symbol starts either from the
\* guards (first symbol) or from the pacing delay of the symbol before it;
\* each symbol goes through detail fetch, evaluation, the send when
\* signalled, and pacing, in that order and one symbol at a time in listing
\* order, so that when a fetch starts every earlier symbol has been fetched
\* exactly once.
C15_SequentialPerSymbol ==
    [][/\ (pc' = "detail" /\ pc # "detail") =>
            /\ (pc = "guard" /\ idx' = 1) \/ (pc = "pace" /\ idx' = idx + 1)
            /\ detailCalls' = idx' - 1
            /\ idx' <= Len(wallex_markets')
       /\ pc = "detail" =>
            /\ pc' = "evaluate" /\ idx' = idx /\ detailCalls' = detailCalls + 1
       /\ pc = "evaluate" =>
            /\ pc' \in {"send", "pace", "crashed"} /\ idx' = idx
            /\ detailCalls' = detailCalls
            /\ pc' = "send" <=> signal' # None
       /\ pc = "send" =>
            /\ pc' \in {"pace", "crashed"} /\ idx' = idx /\ detailCalls' = detailCalls
       /\ (pc' = "pace" /\ pc # "pace") => pc \in {"evaluate", "send"}]_vars

\* The first symbol was fetched, signalled and paced; the fetch of the second
\* symbol is about to start.
C15_Witness ==
    /\ pc = "detail" /\ idx = 2
    /\ detailCalls = 1 /\ sendCalls = 1 /\ sendAttempts = 1 /\ sendFailures = 0

\* C16: one call of send_telegram_message makes at most one send attempt; a
\* failed attempt is followed by the pacing delay with no exception and the
\* loop position unchanged; and what follows the pacing delay does not
\* depend on how the send ended.
C16_SendFailureContained ==
    [][/\ pc = "send" =>
            /\ sendAttempts' <= sendAttempts + 1
            /\ sendFailures' > sendFailures =>
                 /\ pc' = "pace" /\ exc' = ""
                 /\ sendAttempts' = sendAttempts + 1
                 /\ sendFailures' = sendFailures + 1
                 /\ idx' = idx /\ wallex_markets' = wallex_markets
       /\ pc = "pace" =>
            /\ pc' = (IF idx < Len(wallex_markets) THEN "detail" ELSE "wait")
            /\ sendAttempts' = sendAttempts /\ sendFailures' = sendFailures]_vars

\* After a failed send for the first symbol the cycle is at the detail fetch
\* of the second.
C16_Witness ==
    /\ pc = "detail" /\ idx = 2
    /\ sendCalls = 1 /\ sendAttempts = 1 /\ sendFailures = 1

\* C17 (as claimed): with a configuration that has no message_thread_id no
\* exception ends the process.
C17_ThreadIdOptional ==
    (Loaded /\ ~config.has_message_thread_id) => (exc = "" /\ pc # "crashed")

\* C18: the configuration is the loaded document for the whole run; every
\* cycle starts with no price table, no listing and no detail price, and
\* reaches its guards only through its own two fetches; every iteration
\* starts with no detail price and evaluates only directly after its own
\* detail fetch.
C18_NothingCarriedOver ==
    [][/\ Loaded => (config' = config /\ config = fileConfig /\ fileConfig' = fileConfig)
       /\ (pc' = "prices" /\ pc # "prices") =>
            /\ coincatch_prices' = EmptyTable /\ wallex_markets' = << >>
            /\ wallex_price' = None /\ percentage_diff' = None /\ signal' = None
       /\ (pc' = "markets" /\ pc # "markets") => pc = "prices"
       /\ (pc' = "guard" /\ pc # "guard") => pc = "markets"
       /\ (pc' = "detail" /\ pc # "detail") =>
            /\ wallex_price' = None /\ percentage_diff' = None /\ signal' = None
            /\ coincatch_prices' = coincatch_prices /\ wallex_markets' = wallex_markets
       /\ (pc' = "evaluate" /\ pc # "evaluate") => (pc = "detail" /\ idx' = idx)]_vars

\* A comparison is being made in a cycle that is not the first one.
C18_Witness ==
    /\ cyclesDone >= 1 /\ pc = "send"
    /\ config = fileConfig
    /\ percentage_diff # None

\* C19 (as claimed): in a cycle that ran its loop with a non-empty bot token,
\* one send has been attempted for every symbol whose comparison met the
\* threshold (each of which led to one call of send_telegram_message), in
\* the first cycle and in the later ones.
C19_OneSendPerSignal ==
    (RanLoop /\ config.bot_token # "" /\ pc # "send") =>
        /\ sendAttempts = sendCalls
        /\ (pc \in {"pace", "crashed"} /\ signal # None) => sendAttempts >= 1
====
